---- MODULE Spec2Model ----
(***************************************************************************)
(* DSKY display system: the yaAGC connection manager (AGCCommunicator),    *)
(* the 4-byte frame parser, the channel decoder and the shared display     *)
(* state, as a state machine.                                              *)
(*                                                                         *)
(* Threads: the communication thread runs communication_loop; the main     *)
(* thread runs the display and finally calls stop().  The peer (yaAGC) is  *)
(* the environment: it accepts or refuses connections, delivers the bytes  *)
(* of `stream`, closes or resets the connection.                           *)
(***************************************************************************)
EXTENDS Integers, Sequences, FiniteSets, TLC

VARIABLES
    display_state,           \* DisplayState: the eleven fields
    socket,                  \* self.socket: "None", "open" or "closed" (closed object still referenced)
    running,                 \* self.running
    pc,                      \* position of the communication thread
    attempts,                \* connect(): local attempts
    input_buffer,            \* receive_packet(): local bytearray(4)
    left_to_read,            \* receive_packet(): local left_to_read
    packet,                  \* communication_loop(): local packet (None or <<channel, value>>)
    main_pc,                 \* position of the main thread (display.run, then stop())
    reconnect_max_attempts,  \* config.communication.yaagc.reconnect_max_attempts
    stream,                  \* the bytes the peer sends over the connection, in order
    arrived,                 \* how many bytes of stream have reached the socket's receive buffer
    pos,                     \* how many bytes of stream recv_into has consumed
    link,                    \* the TCP connection: "down", "up", "peer_closed", "reset"
    events,                  \* history: the (channel, value) pairs handed to process_packet
    group_starts,            \* history: stream offset at which each complete 4-byte group began
    retry_waits,             \* history: number of time.sleep(reconnect_interval) calls
    last_recv,               \* history: outcome of the latest recv_into call
    sent,                    \* history: what the peer encoded into stream
    lock,                    \* display_state.lock: "free", or the thread holding it ("comm", "main")
    pending,                 \* per thread: the writes it has still to make in its "with lock:" block
    reading,                 \* get_snapshot(): the values of the dict literal evaluated so far
    snapshot,                \* the dict the latest get_snapshot() returned (NoSnapshot before)
    shared,                  \* the list fields whose list object snapshot and display_state share
    simulation_mode,         \* config.display.simulation_mode
    selected_element,        \* DSKYSimulator.selected_element
    selected_digit,          \* DSKYSimulator.selected_digit (0-based, as in the source)
    keys                     \* history: number of KEYDOWN events the simulator has handled

vars == <<display_state, socket, running, pc, attempts, input_buffer, left_to_read,
          packet, main_pc, reconnect_max_attempts, stream, arrived, pos, link,
          events, group_starts, retry_waits, last_recv, sent,
          lock, pending, reading, snapshot, shared,
          simulation_mode, selected_element, selected_digit, keys>>

commLocals == <<attempts, input_buffer, left_to_read, packet>>
envVars == <<stream, arrived, pos, link>>
history == <<events, group_starts, retry_waits, last_recv>>
renderVars == <<lock, pending, reading, snapshot, shared>>
simVars == <<simulation_mode, selected_element, selected_digit, keys>>
\* what the communicator, stop() and the peer leave alone when their writes
\* are taken as one step each
fixed == <<reconnect_max_attempts, sent, renderVars, simVars>>

(***************************************************************************)
(* Bounds of the model.                                                    *)
(***************************************************************************)
MaxFrames == 2         \* the peer sends at most this many 4-byte frames
MaxAttemptsCfg == 2    \* reconnect_max_attempts ranges over 0..MaxAttemptsCfg
MaxTries == 2          \* with unlimited retries the attempt counter saturates here
MaxKeys == 2           \* the simulator handles at most this many KEYDOWN events

(***************************************************************************)
(* Bit operations on non-negative Python ints.                             *)
(***************************************************************************)
RECURSIVE BitAnd(_, _)
BitAnd(a, b) ==
    IF a = 0 \/ b = 0 THEN 0
    ELSE (a % 2) * (b % 2) + 2 * BitAnd(a \div 2, b \div 2)

RECURSIVE BitOr(_, _)
BitOr(a, b) ==
    IF a = 0 THEN b
    ELSE IF b = 0 THEN a
    ELSE (IF a % 2 = 1 \/ b % 2 = 1 THEN 1 ELSE 0) + 2 * BitOr(a \div 2, b \div 2)

ShiftL(a, n) == a * (2 ^ n)
ShiftR(a, n) == a \div (2 ^ n)

None == -1    \* Python's None where a digit is expected (the blank table entry)

(***************************************************************************)
(* DisplayState (dsky_display.py).                                         *)
(***************************************************************************)
DisplayStateInit ==
    [prog |-> <<0, 0>>, verb |-> <<0, 0>>, noun |-> <<0, 0>>,
     r1 |-> <<0, 0, 0, 0, 0>>, r2 |-> <<0, 0, 0, 0, 0>>, r3 |-> <<0, 0, 0, 0, 0>>,
     r1_sign |-> "None", r2_sign |-> "None", r3_sign |-> "None",
     comp_acty |-> FALSE, connected |-> TRUE]

\* a bug: the two digits stored in the wrong order
set_prog_swapped(ds, m1, m2) == [ds EXCEPT !.prog = <<m2, m1>>]

set_prog(ds, m1, m2) == [ds EXCEPT !.prog = <<m1, m2>>]

\* a bug: the verb setter writes the noun pair
set_verb_writes_noun(ds, v1, v2) == [ds EXCEPT !.noun = <<v1, v2>>]

set_verb(ds, v1, v2) == [ds EXCEPT !.verb = <<v1, v2>>]
set_noun(ds, n1, n2) == [ds EXCEPT !.noun = <<n1, n2>>]

(***************************************************************************)
(* Digit recovery (dsky_channel_decoder.py).  The table is the dict        *)
(* literal in source order, index 1 = first entry; Python keeps the last   *)
(* value written for a repeated key.  Lists are 1-based here: r1[0] of the *)
(* source is r1[1].                                                        *)
(***************************************************************************)
SEVEN_SEGMENT_TO_DIGIT ==
    << <<31, 0>>, <<6, 1>>, <<27, 2>>, <<15, 3>>, <<6, 4>>, <<13, 5>>,
       <<29, 6>>, <<7, 7>>, <<31, 8>>, <<15, 9>>, <<0, None>> >>

TableKeys == {SEVEN_SEGMENT_TO_DIGIT[i][1] : i \in DOMAIN SEVEN_SEGMENT_TO_DIGIT}

\* a bug: the lookup hands back the bit pattern, not the digit stored for it
TableLookup_key(bits) == bits

TableLookup(bits) ==
    LET hits == {i \in DOMAIN SEVEN_SEGMENT_TO_DIGIT : SEVEN_SEGMENT_TO_DIGIT[i][1] = bits}
        last == CHOOSE i \in hits : \A j \in hits : j <= i
    IN  SEVEN_SEGMENT_TO_DIGIT[last][2]

\* oct(bits)[2:] as the sequence of its octal digits, most significant first
RECURSIVE OctalStr(_)
OctalStr(n) == IF n < 8 THEN <<n>> ELSE Append(OctalStr(n \div 8), n % 8)

\* a bug: the last stage returns the value itself, not the value modulo 10
seven_segment_to_digit_no_mod(bits) ==
    IF 0 <= bits /\ bits <= 9 THEN bits
    ELSE IF bits \in TableKeys THEN TableLookup(bits)
    ELSE LET octal_str == OctalStr(bits) IN
         IF Len(octal_str) = 2 /\ octal_str[1] = 0 /\ 0 <= octal_str[2] /\ octal_str[2] <= 9
             THEN octal_str[2]
         ELSE IF Len(octal_str) = 1 THEN octal_str[1]
         ELSE bits

\* a bug: the table is consulted before the direct interpretation
seven_segment_to_digit_table_first(bits) ==
    IF bits \in TableKeys THEN TableLookup(bits)
    ELSE IF 0 <= bits /\ bits <= 9 THEN bits
    ELSE LET octal_str == OctalStr(bits) IN
         IF Len(octal_str) = 2 /\ octal_str[1] = 0 /\ 0 <= octal_str[2] /\ octal_str[2] <= 9
             THEN octal_str[2]
         ELSE IF Len(octal_str) = 1 THEN octal_str[1]
         ELSE bits % 10

\* a bug: the modulo default comes right after the direct interpretation
seven_segment_to_digit_mod_first(bits) ==
    IF 0 <= bits /\ bits <= 9 THEN bits
    ELSE bits % 10

seven_segment_to_digit(bits) ==
    IF 0 <= bits /\ bits <= 9 THEN bits
    ELSE IF bits \in TableKeys THEN TableLookup(bits)
    ELSE LET octal_str == OctalStr(bits) IN
         IF Len(octal_str) = 2 /\ octal_str[1] = 0 /\ 0 <= octal_str[2] /\ octal_str[2] <= 9
             THEN octal_str[2]
         ELSE IF Len(octal_str) = 1 THEN octal_str[1]
         ELSE bits % 10

\* Python's "d or 0": None and 0 are falsy
OrZero(d) == IF d = None \/ d = 0 THEN 0 ELSE d

\* a bug: the sign inverted
SignOf_inverted(sign_bit) == IF sign_bit # 0 THEN "+" ELSE "-"

\* a bug: a clear sign bit leaves the sign unset
SignOf_unset(sign_bit) == IF sign_bit # 0 THEN "-" ELSE "None"

SignOf(sign_bit) == IF sign_bit # 0 THEN "-" ELSE "+"

\* decode_channel10 with one of three bugs: relay 6 also writes the sign of r1;
\* relay 12 falls into the PROG branch; relay 7 writes the second and third
\* digit of r1
decode_channel10_with(value, ds, bug) ==
    LET relay == BitAnd(ShiftR(value, 11), 15)
        sign_bit == BitAnd(ShiftR(value, 10), 1)
        digit1_bits == BitAnd(ShiftR(value, 5), 31)
        digit2_bits == BitAnd(value, 31)
        d1 == OrZero(seven_segment_to_digit(digit1_bits))
        d2 == OrZero(seven_segment_to_digit(digit2_bits))
    IN  CASE relay = 11 \/ (relay = 12 /\ bug = "relay12") -> set_prog(ds, d1, d2)
          [] relay = 10 -> set_verb(ds, d1, d2)
          [] relay = 9  -> set_noun(ds, d1, d2)
          [] relay = 8  -> [ds EXCEPT !.r1[1] = d1, !.r1[2] = d2]
          [] relay = 7 /\ bug = "relay7" ->
                 [ds EXCEPT !.r1[2] = d1, !.r1[3] = d2, !.r1_sign = SignOf(sign_bit)]
          [] relay = 7  -> [ds EXCEPT !.r1[3] = d1, !.r1[4] = d2, !.r1_sign = SignOf(sign_bit)]
          [] relay = 6 /\ bug = "relay6" ->
                 [ds EXCEPT !.r1[4] = d1, !.r1[5] = d2, !.r1_sign = SignOf(sign_bit)]
          [] relay = 6  -> [ds EXCEPT !.r1[4] = d1, !.r1[5] = d2]
          [] relay = 5  -> [ds EXCEPT !.r2[1] = d1, !.r2[2] = d2, !.r2_sign = SignOf(sign_bit)]
          [] relay = 4  -> [ds EXCEPT !.r2[3] = d1, !.r2[4] = d2]
          [] relay = 3  -> [ds EXCEPT !.r2[5] = d1, !.r3[1] = d2]
          [] relay = 2  -> [ds EXCEPT !.r3[2] = d1, !.r3[3] = d2, !.r3_sign = SignOf(sign_bit)]
          [] relay = 1  -> [ds EXCEPT !.r3[4] = d1, !.r3[5] = d2]
          [] OTHER -> ds

decode_channel10_relay6_sign(value, ds) == decode_channel10_with(value, ds, "relay6")

decode_channel10_relay12_prog(value, ds) == decode_channel10_with(value, ds, "relay12")

decode_channel10_relay7_slots(value, ds) == decode_channel10_with(value, ds, "relay7")

decode_channel10(value, ds) ==
    LET relay == BitAnd(ShiftR(value, 11), 15)
        sign_bit == BitAnd(ShiftR(value, 10), 1)
        digit1_bits == BitAnd(ShiftR(value, 5), 31)
        digit2_bits == BitAnd(value, 31)
        d1 == OrZero(seven_segment_to_digit(digit1_bits))
        d2 == OrZero(seven_segment_to_digit(digit2_bits))
    IN  CASE relay = 11 -> set_prog(ds, d1, d2)
          [] relay = 10 -> set_verb(ds, d1, d2)
          [] relay = 9  -> set_noun(ds, d1, d2)
          [] relay = 8  -> [ds EXCEPT !.r1[1] = d1, !.r1[2] = d2]
          [] relay = 7  -> [ds EXCEPT !.r1[3] = d1, !.r1[4] = d2, !.r1_sign = SignOf(sign_bit)]
          [] relay = 6  -> [ds EXCEPT !.r1[4] = d1, !.r1[5] = d2]
          [] relay = 5  -> [ds EXCEPT !.r2[1] = d1, !.r2[2] = d2, !.r2_sign = SignOf(sign_bit)]
          [] relay = 4  -> [ds EXCEPT !.r2[3] = d1, !.r2[4] = d2]
          [] relay = 3  -> [ds EXCEPT !.r2[5] = d1, !.r3[1] = d2]
          [] relay = 2  -> [ds EXCEPT !.r3[2] = d1, !.r3[3] = d2, !.r3_sign = SignOf(sign_bit)]
          [] relay = 1  -> [ds EXCEPT !.r3[4] = d1, !.r3[5] = d2]
          [] OTHER -> ds

\* a bug: bit 0 taken for bit 1
decode_channel11_bit0(value, ds) ==
    LET comp_acty == BitAnd(value, 1)
    IN  [ds EXCEPT !.comp_acty = (comp_acty # 0)]

decode_channel11(value, ds) ==
    LET comp_acty == BitAnd(ShiftR(value, 1), 1)
    IN  [ds EXCEPT !.comp_acty = (comp_acty # 0)]

\* process_packet compares the channel number with the octal literals 0o10, 0o11, 0o13, 0o163
Channel10 == 8
Channel11 == 9

\* the dispatch with the channel numbers read as decimal numerals
process_packet_decimal(channel, value, ds) ==
    IF channel = 10 THEN decode_channel10(value, ds)
    ELSE IF channel = 11 THEN decode_channel11(value, ds)
    ELSE ds

process_packet(channel, value, ds) ==
    IF channel = Channel10 THEN decode_channel10(value, ds)
    ELSE IF channel = Channel11 THEN decode_channel11(value, ds)
    ELSE ds

(***************************************************************************)
(* Frame parsing: the second half of receive_packet, on a full buffer.     *)
(* input_buffer[0..3] of the source is buf[1..4].                          *)
(***************************************************************************)
NoPacket == << >>    \* receive_packet returned None

\* a bug: the tag of the last byte is not checked
SanityCheck_no_byte3(buf) ==
    /\ BitAnd(buf[1], 240) = 0
    /\ BitAnd(buf[2], 192) = 64
    /\ BitAnd(buf[3], 192) = 128

SanityCheck(buf) ==
    /\ BitAnd(buf[1], 240) = 0
    /\ BitAnd(buf[2], 192) = 64
    /\ BitAnd(buf[3], 192) = 128
    /\ BitAnd(buf[4], 192) = 192

ParseChannel(buf) ==
    BitOr(ShiftL(BitAnd(buf[1], 15), 3), ShiftR(BitAnd(buf[2], 56), 3))

\* a bug: the middle six bits shifted by 5 instead of 6
ParseValue_shift5(buf) ==
    BitOr(BitOr(ShiftL(BitAnd(buf[2], 7), 12), ShiftL(BitAnd(buf[3], 63), 5)),
          BitAnd(buf[4], 63))

ParseValue(buf) ==
    BitOr(BitOr(ShiftL(BitAnd(buf[2], 7), 12), ShiftL(BitAnd(buf[3], 63), 6)),
          BitAnd(buf[4], 63))

ParsePacket(buf) ==
    IF SanityCheck(buf) THEN <<ParseChannel(buf), ParseValue(buf)>> ELSE NoPacket

(***************************************************************************)
(* The peer's side of the wire format: how yaAGC packs (channel, value).   *)
(***************************************************************************)
Pack(channel, value) ==
    << ShiftR(channel, 3),
       BitOr(64, BitOr(ShiftL(BitAnd(channel, 7), 3), ShiftR(value, 12))),
       BitOr(128, BitAnd(ShiftR(value, 6), 63)),
       BitOr(192, BitAnd(value, 63)) >>

DisplayValue(relay, sign_bit, d1, d2) ==
    BitOr(BitOr(ShiftL(relay, 11), ShiftL(sign_bit, 10)), BitOr(ShiftL(d1, 5), d2))

(***************************************************************************)
(* The streams the peer may send in the full system: MaxFrames frames      *)
(* taken in turn from a cycle of two well-formed frames and one with a bad *)
(* tag, starting anywhere in the cycle.  The peer may close at any point,  *)
(* so every shorter stream is covered too.                                 *)
(***************************************************************************)
FrameProg16 == Pack(Channel10, DisplayValue(11, 0, 1, 6))
FrameCompActy == Pack(Channel11, 2)
FrameBadTag == <<16, 64, 128, 192>>

FrameCycle == <<FrameBadTag, FrameProg16, FrameCompActy>>

RECURSIVE Flatten(_)
Flatten(frames) == IF frames = << >> THEN << >> ELSE Head(frames) \o Flatten(Tail(frames))

Streams ==
    {Flatten([i \in 1..MaxFrames |-> FrameCycle[((i + k - 1) % Len(FrameCycle)) + 1]]) :
        k \in 0..(Len(FrameCycle) - 1)}

Min(a, b) == IF a < b THEN a ELSE b

\* get_snapshot() has returned nothing yet
NoSnapshot == << >>

\* no thread is inside a "with lock:" block
NoWrites == [thread \in {"comm", "main"} |-> << >>]

\* communication mode with nobody at the lock: the Lock() just built, no
\* snapshot taken, no simulator (its fields are written as its constructor
\* would set them)
RenderIdle ==
    /\ lock = "free"
    /\ pending = NoWrites
    /\ reading = << >>
    /\ snapshot = NoSnapshot
    /\ shared = {}
    /\ simulation_mode = FALSE
    /\ selected_element = "prog"
    /\ selected_digit = 0
    /\ keys = 0

(***************************************************************************)
(* Init: the state after main() has built DisplayState and AGCCommunicator *)
(* and started the communication thread, which has not run yet.            *)
(***************************************************************************)
Init ==
    /\ display_state = DisplayStateInit
    /\ socket = "None"
    /\ running = FALSE
    /\ pc = "start"
    /\ attempts = 0
    /\ input_buffer = <<0, 0, 0, 0>>
    /\ left_to_read = 0
    /\ packet = NoPacket
    /\ main_pc = "run"
    /\ reconnect_max_attempts \in 0..MaxAttemptsCfg
    /\ stream \in Streams
    /\ arrived = 0
    /\ pos = 0
    /\ link = "down"
    /\ events = << >>
    /\ group_starts = << >>
    /\ retry_waits = 0
    /\ last_recv = "none"
    /\ sent = << >>
    /\ RenderIdle

(***************************************************************************)
(* connect()                                                               *)
(***************************************************************************)
\* max_attempts = reconnect_max_attempts if > 0 else float('inf')
\* a bug: no setting counts as unlimited
Unlimited_never == FALSE

Unlimited == reconnect_max_attempts <= 0
\* a bug: "<=" for "<", one attempt too many
BelowMax_off_by_one(n) == Unlimited \/ n <= reconnect_max_attempts

BelowMax(n) == Unlimited \/ n < reconnect_max_attempts
\* attempts is only compared with max_attempts: with max_attempts infinite its
\* value decides nothing, and the model lets it saturate at MaxTries
Count(n) == IF Unlimited THEN Min(n + 1, MaxTries) ELSE n + 1

\* communication_loop: self.running = True; connect(): attempts = 0, first loop test
CommStart ==
    /\ pc = "start"
    /\ running' = TRUE
    /\ attempts' = 0
    /\ pc' = IF BelowMax(0) THEN "create_socket" ELSE "giveup"
    /\ UNCHANGED <<display_state, socket, input_buffer, left_to_read, packet, main_pc>>
    /\ UNCHANGED <<envVars, history, fixed>>

\* self.socket = socket.socket(AF_INET, SOCK_STREAM)
CreateSocket ==
    /\ pc = "create_socket"
    /\ socket' = "open"
    /\ pc' = "connect"
    /\ UNCHANGED <<display_state, running, commLocals, main_pc, envVars, history, fixed>>

\* except socket.error: attempts += 1; retry after a sleep, or break
ConnectError ==
    /\ attempts' = Count(attempts)
    /\ pc' = IF BelowMax(attempts') THEN "retry_sleep" ELSE "giveup"

\* self.socket.settimeout(...); self.socket.connect(...): the peer accepts
ConnectAccepted ==
    /\ pc = "connect"
    /\ socket = "open"
    /\ link' = "up"
    /\ pos' = arrived
    /\ pc' = "set_nonblocking"
    /\ UNCHANGED <<display_state, socket, running, commLocals, main_pc>>
    /\ UNCHANGED <<stream, arrived, history, fixed>>

\* ... the peer refuses or the connect times out (socket.error), or the socket
\* object was closed by disconnect() in the meantime (OSError)
ConnectRefused ==
    /\ pc = "connect"
    /\ socket \in {"open", "closed"}
    /\ ConnectError
    /\ UNCHANGED <<display_state, socket, running, input_buffer, left_to_read, packet, main_pc>>
    /\ UNCHANGED <<envVars, history, fixed>>

\* self.socket is None (disconnect() cleared it): AttributeError is no
\* socket.error, it leaves connect() and communication_loop(): the thread dies
ConnectNoSocket ==
    /\ pc \in {"connect", "set_nonblocking"}
    /\ socket = "None"
    /\ pc' = "crashed"
    /\ UNCHANGED <<display_state, socket, running, commLocals, main_pc, envVars, history, fixed>>

\* time.sleep(self.reconnect_interval), then the loop test (known to hold)
RetrySleep ==
    /\ pc = "retry_sleep"
    /\ retry_waits' = Count(retry_waits)
    /\ pc' = "create_socket"
    /\ UNCHANGED <<display_state, socket, running, commLocals, main_pc, envVars, fixed>>
    /\ UNCHANGED <<events, group_starts, last_recv>>

\* self.socket.setblocking(0); self.last_packet_time = time.time()
SetNonblocking ==
    /\ pc = "set_nonblocking"
    /\ socket = "open"
    /\ pc' = "set_connected"
    /\ UNCHANGED <<display_state, socket, running, commLocals, main_pc, envVars, history, fixed>>

\* setblocking on a socket object closed by disconnect(): OSError, caught as socket.error
SetNonblockingClosed ==
    /\ pc = "set_nonblocking"
    /\ socket = "closed"
    /\ ConnectError
    /\ UNCHANGED <<display_state, socket, running, input_buffer, left_to_read, packet, main_pc>>
    /\ UNCHANGED <<envVars, history, fixed>>

\* with lock: connected = True; return True; communication_loop goes on to its loop
SetConnected ==
    /\ pc = "set_connected"
    /\ display_state' = [display_state EXCEPT !.connected = TRUE]
    /\ pc' = "loop"
    /\ UNCHANGED <<socket, running, commLocals, main_pc, envVars, history, fixed>>

\* after the loop: with lock: connected = False; return False
GiveUp ==
    /\ pc = "giveup"
    /\ display_state' = [display_state EXCEPT !.connected = FALSE]
    /\ pc' = "connect_failed"
    /\ UNCHANGED <<socket, running, commLocals, main_pc, envVars, history, fixed>>

\* communication_loop: if not self.connect(): self.running = False; return
ConnectFailed ==
    /\ pc = "connect_failed"
    /\ running' = FALSE
    /\ pc' = "done"
    /\ UNCHANGED <<display_state, socket, commLocals, main_pc, envVars, history, fixed>>

(***************************************************************************)
(* communication_loop(): the main loop, and receive_packet()               *)
(***************************************************************************)
\* while self.running: enter receive_packet() with a fresh bytearray(4),
\* left_to_read = 4; or leave the loop and end the thread
LoopCheck ==
    /\ pc = "loop"
    /\ IF running
         THEN /\ pc' = "recv"
              /\ input_buffer' = <<0, 0, 0, 0>>
              /\ left_to_read' = 4
         ELSE /\ pc' = "done"
              /\ UNCHANGED <<input_buffer, left_to_read>>
    /\ UNCHANGED <<display_state, socket, running, attempts, packet, main_pc>>
    /\ UNCHANGED <<envVars, history, fixed>>

\* receive_packet returns None without a packet: back in communication_loop,
\* "if packet:" fails and the loop goes to its sleep
\* a bug: after a failed read the loop goes back to connecting
ReturnNone_reconnect(outcome) ==
    /\ packet' = NoPacket
    /\ last_recv' = outcome
    /\ pc' = IF outcome \in {"eof", "error"} THEN "create_socket" ELSE "sleep"
    /\ UNCHANGED <<display_state, socket, running, attempts, input_buffer, left_to_read, main_pc>>
    /\ UNCHANGED <<stream, arrived, pos, events, group_starts, retry_waits, fixed>>

ReturnNone(outcome) ==
    /\ packet' = NoPacket
    /\ last_recv' = outcome
    /\ pc' = "sleep"
    /\ UNCHANGED <<display_state, socket, running, attempts, input_buffer, left_to_read, main_pc>>
    /\ UNCHANGED <<stream, arrived, pos, events, group_starts, retry_waits, fixed>>

\* the bytes recv_into(view, left_to_read) stores, given what has arrived
Received(buf, left, n) ==
    [i \in 1..4 |-> IF 4 - left < i /\ i <= 4 - left + n THEN stream[pos + i - (4 - left)] ELSE buf[i]]

\* num_bytes = self.socket.recv_into(view, left_to_read) with num_bytes > 0;
\* view = view[num_bytes:]; left_to_read -= num_bytes; loop test
RecvData ==
    /\ pc = "recv"
    /\ socket = "open"
    /\ link # "reset"
    /\ arrived > pos
    /\ LET num_bytes == Min(left_to_read, arrived - pos) IN
         /\ input_buffer' = Received(input_buffer, left_to_read, num_bytes)
         /\ left_to_read' = left_to_read - num_bytes
         /\ pos' = pos + num_bytes
         /\ pc' = IF left_to_read' > 0 THEN "recv" ELSE "parse"
         /\ group_starts' = IF left_to_read' > 0 THEN group_starts
                            ELSE Append(group_starts, pos' - 4)
    /\ last_recv' = "data"
    /\ UNCHANGED <<display_state, socket, running, attempts, packet, main_pc>>
    /\ UNCHANGED <<stream, arrived, link, events, retry_waits, fixed>>

\* nothing to read on the non-blocking socket: BlockingIOError, return None
RecvBlocked ==
    /\ pc = "recv"
    /\ socket = "open"
    /\ link \in {"up", "down"}
    /\ arrived = pos
    /\ ReturnNone("blocked")
    /\ UNCHANGED link

\* the peer closed and everything was read: num_bytes == 0, return None
RecvEof ==
    /\ pc = "recv"
    /\ socket = "open"
    /\ link = "peer_closed"
    /\ arrived = pos
    /\ ReturnNone("eof")
    /\ UNCHANGED link

\* the connection was reset: recv_into raises ConnectionResetError, caught by
\* "except Exception": printed, return None; later reads see end of stream
RecvError ==
    /\ pc = "recv"
    /\ socket = "open"
    /\ link = "reset"
    /\ ReturnNone("error")
    /\ link' = "peer_closed"

\* disconnect() closed or cleared self.socket: OSError or AttributeError, both
\* caught by "except Exception": printed, return None
RecvNoSocket ==
    /\ pc = "recv"
    /\ socket \in {"closed", "None"}
    /\ ReturnNone("no_socket")
    /\ UNCHANGED link

\* the buffer is full: sanity check and parse; receive_packet returns
Parse ==
    /\ pc = "parse"
    /\ packet' = ParsePacket(input_buffer)
    /\ pc' = "process"
    /\ UNCHANGED <<display_state, socket, running, attempts, input_buffer, left_to_read, main_pc>>
    /\ UNCHANGED <<envVars, history, fixed>>

\* if packet: channel, value = packet; self.process_packet(channel, value)
Process ==
    /\ pc = "process"
    /\ IF packet # NoPacket
         THEN /\ display_state' = process_packet(packet[1], packet[2], display_state)
              /\ events' = Append(events, packet)
         ELSE UNCHANGED <<display_state, events>>
    /\ pc' = "sleep"
    /\ UNCHANGED <<socket, running, commLocals, main_pc, envVars, fixed>>
    /\ UNCHANGED <<group_starts, retry_waits, last_recv>>

\* time.sleep(self.pulse)
Sleep ==
    /\ pc = "sleep"
    /\ pc' = "loop"
    /\ UNCHANGED <<display_state, socket, running, commLocals, main_pc, envVars, history, fixed>>

(***************************************************************************)
(* The main thread: stop() = self.running = False; self.disconnect()       *)
(***************************************************************************)
StopSetRunning ==
    /\ main_pc = "run"
    /\ running' = FALSE
    /\ main_pc' = "disconnect"
    /\ UNCHANGED <<display_state, socket, pc, commLocals, envVars, history, fixed>>

\* if self.socket: self.socket.close()
DisconnectClose ==
    /\ main_pc = "disconnect"
    /\ IF socket # "None"
         THEN /\ socket' = "closed"
              /\ link' = "down"
              /\ main_pc' = "disconnect_clear"
         ELSE /\ UNCHANGED <<socket, link>>
              /\ main_pc' = "disconnect_flag"
    /\ UNCHANGED <<display_state, running, pc, commLocals, stream, arrived, pos, history, fixed>>

\* a bug: the closed socket object is kept
DisconnectClear_keeps_socket ==
    /\ main_pc = "disconnect_clear"
    /\ main_pc' = "disconnect_flag"
    /\ UNCHANGED <<display_state, socket, running, pc, commLocals, envVars, history, fixed>>

\* self.socket = None
DisconnectClear ==
    /\ main_pc = "disconnect_clear"
    /\ socket' = "None"
    /\ main_pc' = "disconnect_flag"
    /\ UNCHANGED <<display_state, running, pc, commLocals, envVars, history, fixed>>

\* with self.display_state.lock: self.display_state.connected = False
DisconnectFlag ==
    /\ main_pc = "disconnect_flag"
    /\ display_state' = [display_state EXCEPT !.connected = FALSE]
    /\ main_pc' = "stopped"
    /\ UNCHANGED <<socket, running, pc, commLocals, envVars, history, fixed>>

(***************************************************************************)
(* The peer and the network                                                *)
(***************************************************************************)
Arrive ==
    /\ link = "up"
    /\ \E n \in (arrived + 1)..Len(stream) : arrived' = n
    /\ UNCHANGED <<display_state, socket, running, pc, commLocals, main_pc>>
    /\ UNCHANGED <<stream, pos, link, history, fixed>>

PeerClose ==
    /\ link = "up"
    /\ link' = "peer_closed"
    /\ UNCHANGED <<display_state, socket, running, pc, commLocals, main_pc>>
    /\ UNCHANGED <<stream, arrived, pos, history, fixed>>

PeerReset ==
    /\ link = "up"
    /\ link' = "reset"
    /\ UNCHANGED <<display_state, socket, running, pc, commLocals, main_pc>>
    /\ UNCHANGED <<stream, arrived, pos, history, fixed>>

(***************************************************************************)
(* Specifications                                                          *)
(***************************************************************************)
Connect ==
    \/ CommStart \/ CreateSocket \/ ConnectAccepted \/ ConnectRefused \/ ConnectNoSocket
    \/ RetrySleep \/ SetNonblocking \/ SetNonblockingClosed \/ SetConnected
    \/ GiveUp \/ ConnectFailed

Receive ==
    \/ LoopCheck \/ RecvData \/ RecvBlocked \/ RecvEof \/ RecvError \/ RecvNoSocket
    \/ Parse \/ Process \/ Sleep

CommThread == Connect \/ Receive

MainThread == StopSetRunning \/ DisconnectClose \/ DisconnectClear \/ DisconnectFlag

Peer == Arrive \/ PeerClose \/ PeerReset

Next == CommThread \/ MainThread \/ Peer

Spec == Init /\ [][Next]_vars

(***************************************************************************)
(* The receive path alone: the communicator is connected (connect() has    *)
(* returned True, nobody calls stop()), the peer has sent its bytes and    *)
(* all of them have arrived.                                               *)
(***************************************************************************)
Connected(bytes, what) ==
    /\ display_state = DisplayStateInit
    /\ socket = "open"
    /\ running = TRUE
    /\ pc = "loop"
    /\ attempts = 0
    /\ input_buffer = <<0, 0, 0, 0>>
    /\ left_to_read = 0
    /\ packet = NoPacket
    /\ main_pc = "run"
    /\ reconnect_max_attempts = 0
    /\ stream = bytes
    /\ arrived = Len(bytes)
    /\ pos = 0
    /\ link = "up"
    /\ events = << >>
    /\ group_starts = << >>
    /\ retry_waits = 0
    /\ last_recv = "none"
    /\ sent = what
    /\ RenderIdle

NextReceive == LoopCheck \/ RecvData \/ RecvBlocked \/ Parse \/ Process \/ Sleep

\* the values each byte of an arbitrary 4-byte group is drawn from: every low
\* nibble with the tag 0000 for byte 0, a spread of payloads with the right tag
\* for bytes 1 to 3, and for every position payloads under each wrong tag
Payloads == {0, 1, 7, 8, 21, 31, 42, 56, 63}
Byte0Vals == 0..15 \cup {16, 31, 64, 128, 240, 255}
Byte1Vals == {64 + p : p \in Payloads} \cup {0, 63, 128, 170, 192, 255}
Byte2Vals == {128 + p : p \in Payloads} \cup {0, 63, 64, 106, 192, 255}
Byte3Vals == {192 + p : p \in Payloads} \cup {0, 63, 64, 127, 128, 191}

InitFrame ==
    \E b0 \in Byte0Vals, b1 \in Byte1Vals, b2 \in Byte2Vals, b3 \in Byte3Vals :
        Connected(<<b0, b1, b2, b3>>, << >>)

SpecFrame == InitFrame /\ [][NextReceive]_vars

\* the peer packs two display events, PROG = a b then VERB = c d, on one channel
Digits == 0..9

InitPipeline ==
    \E channel \in {8, 10} : \E a \in Digits, b \in Digits, c \in Digits, d \in Digits :
        Connected(Pack(channel, DisplayValue(11, 0, a, b)) \o Pack(channel, DisplayValue(10, 0, c, d)),
                  [channel |-> channel, a |-> a, b |-> b, c |-> c, d |-> d])

SpecPipeline == InitPipeline /\ [][NextReceive]_vars

\* the peer sends the three words of register 1: relay 8 (a, b), then relay 7
\* (c, d) and relay 6 (e, f) in either order
EdgeDigits == {0, 7}

Relay76(first, a, b, c, d, e, f, sign_bit) ==
    Pack(Channel10, DisplayValue(8, 0, a, b))
      \o (IF first = 7
            THEN Pack(Channel10, DisplayValue(7, sign_bit, c, d)) \o Pack(Channel10, DisplayValue(6, 0, e, f))
            ELSE Pack(Channel10, DisplayValue(6, 0, e, f)) \o Pack(Channel10, DisplayValue(7, sign_bit, c, d)))

InitOverlap ==
    \E first \in {7, 6}, sign_bit \in {0, 1} :
      \E a \in EdgeDigits, b \in EdgeDigits, c \in EdgeDigits, f \in EdgeDigits :
        \E d \in Digits, e \in Digits :
            Connected(Relay76(first, a, b, c, d, e, f, sign_bit),
                      [first |-> first, a |-> a, b |-> b, c |-> c, d |-> d, e |-> e, f |-> f])

SpecOverlap == InitOverlap /\ [][NextReceive]_vars

(***************************************************************************)
(* disconnect() alone: the communication thread is at rest (not started,   *)
(* or returned from communication_loop) and the caller calls disconnect()  *)
(* again and again.                                                        *)
(***************************************************************************)
\* the events of the first k aligned 4-byte groups of bytes
RECURSIVE FrameEvents(_, _)
FrameEvents(bytes, k) ==
    IF k = 0 THEN << >>
    ELSE IF ParsePacket(SubSeq(bytes, 4 * k - 3, 4 * k)) = NoPacket THEN FrameEvents(bytes, k - 1)
    ELSE Append(FrameEvents(bytes, k - 1), ParsePacket(SubSeq(bytes, 4 * k - 3, 4 * k)))

\* process_packet applied to the events in order
RECURSIVE Replay(_, _)
Replay(evs, ds) ==
    IF evs = << >> THEN ds
    ELSE Replay(Tail(evs), process_packet(Head(evs)[1], Head(evs)[2], ds))

\* stop() was called on a connected communicator just after it had received
\* and processed its k-th frame: running is False, the loop has ended with the
\* locals of the last receive_packet call, stop() is about to call disconnect()
AtRestConnected(bytes, k, l) ==
    /\ display_state = Replay(FrameEvents(bytes, k), DisplayStateInit)
    /\ socket = "open"
    /\ running = FALSE
    /\ pc = "done"
    /\ attempts = 0
    /\ input_buffer = IF k = 0 THEN <<0, 0, 0, 0>> ELSE SubSeq(bytes, 4 * k - 3, 4 * k)
    /\ left_to_read = 0
    /\ packet = IF k = 0 THEN NoPacket ELSE ParsePacket(SubSeq(bytes, 4 * k - 3, 4 * k))
    /\ main_pc = "disconnect"
    /\ reconnect_max_attempts = 0
    /\ stream = bytes
    /\ arrived = 4 * k
    /\ pos = 4 * k
    /\ link = l
    /\ events = FrameEvents(bytes, k)
    /\ group_starts = [i \in 1..k |-> 4 * (i - 1)]
    /\ retry_waits = 0
    /\ last_recv = IF k = 0 THEN "none" ELSE "data"
    /\ sent = << >>
    /\ RenderIdle

\* connect() gave up after n attempts: the socket of the last attempt is still
\* referenced, the flag is False, communication_loop has returned
AtRestGaveUp(bytes, n) ==
    /\ display_state = [DisplayStateInit EXCEPT !.connected = FALSE]
    /\ socket = "open"
    /\ running = FALSE
    /\ pc = "done"
    /\ attempts = n
    /\ input_buffer = <<0, 0, 0, 0>>
    /\ left_to_read = 0
    /\ packet = NoPacket
    /\ main_pc = "run"
    /\ reconnect_max_attempts = n
    /\ stream = bytes
    /\ arrived = 0
    /\ pos = 0
    /\ link = "down"
    /\ events = << >>
    /\ group_starts = << >>
    /\ retry_waits = n - 1
    /\ last_recv = "none"
    /\ sent = << >>
    /\ RenderIdle

InitDisconnect ==
    \/ Init
    \/ \E bytes \in Streams, k \in 0..MaxFrames, l \in {"up", "peer_closed", "reset"} :
           AtRestConnected(bytes, k, l)
    \/ \E bytes \in Streams, n \in 1..MaxAttemptsCfg : AtRestGaveUp(bytes, n)

\* def disconnect(self): the caller enters disconnect()
DisconnectCall ==
    /\ main_pc \in {"run", "stopped"}
    /\ main_pc' = "disconnect"
    /\ UNCHANGED <<display_state, socket, running, pc, commLocals, envVars, history, fixed>>

NextDisconnect == DisconnectCall \/ DisconnectClose \/ DisconnectClear \/ DisconnectFlag

SpecDisconnect == InitDisconnect /\ [][NextDisconnect]_vars

(***************************************************************************)
(* One channel event through parse and process_packet, for every 15-bit    *)
(* value on the two decoded channels.  The communicator is connected and   *)
(* receive_packet has just filled its buffer with the frame of the event;  *)
(* before it the peer sent either nothing or traffic that has set every    *)
(* display field.                                                          *)
(***************************************************************************)
Values15 == 0..32767

FillTraffic ==
    << Pack(Channel10, DisplayValue(11, 0, 1, 2)), Pack(Channel10, DisplayValue(10, 0, 3, 4)),
       Pack(Channel10, DisplayValue(9, 0, 5, 6)),  Pack(Channel10, DisplayValue(8, 0, 1, 2)),
       Pack(Channel10, DisplayValue(7, 1, 3, 4)),  Pack(Channel10, DisplayValue(6, 0, 4, 5)),
       Pack(Channel10, DisplayValue(5, 0, 6, 7)),  Pack(Channel10, DisplayValue(4, 0, 8, 9)),
       Pack(Channel10, DisplayValue(3, 0, 1, 2)),  Pack(Channel10, DisplayValue(2, 1, 3, 4)),
       Pack(Channel10, DisplayValue(1, 0, 5, 6)),  Pack(Channel11, 2) >>

\* what the communicator holds once it has processed all of earlier: stream
\* bytes consumed, events handed over, display state, last packet
After(earlier) ==
    [bytes |-> Flatten(earlier),
     events |-> FrameEvents(Flatten(earlier), Len(earlier)),
     display_state |-> Replay(FrameEvents(Flatten(earlier), Len(earlier)), DisplayStateInit),
     packet |-> IF earlier = << >> THEN NoPacket ELSE ParsePacket(earlier[Len(earlier)])]

NoTraffic == After(<< >>)
Filled == After(FillTraffic)

\* receive_packet has read the whole frame that follows the processed frames
\* of prior: the buffer is full, the sanity check comes next
Buffered(prior, frame) ==
    /\ display_state = prior.display_state
    /\ socket = "open"
    /\ running = TRUE
    /\ pc = "parse"
    /\ attempts = 0
    /\ input_buffer = frame
    /\ left_to_read = 0
    /\ packet = prior.packet
    /\ main_pc = "run"
    /\ reconnect_max_attempts = 0
    /\ stream = prior.bytes \o frame
    /\ arrived = Len(prior.bytes) + 4
    /\ pos = Len(prior.bytes) + 4
    /\ link = "up"
    /\ events = prior.events
    /\ group_starts = [i \in 1..((Len(prior.bytes) \div 4) + 1) |-> 4 * (i - 1)]
    /\ retry_waits = 0
    /\ last_recv = "data"
    /\ sent = << >>
    /\ RenderIdle

\* the 7-bit channel numbers of the wire format
Channels == 0..127

\* a value for every relay code, for both indicator settings and the extremes
DispatchValues == {DisplayValue(relay, 1, 27, 29) : relay \in 0..15} \cup {0, 2, 32767}

InitDecode ==
    \E prior \in {NoTraffic, Filled} :
        \/ \E channel \in {Channel10, Channel11}, value \in Values15 :
               Buffered(prior, Pack(channel, value))
        \/ \E channel \in Channels, value \in DispatchValues :
               Buffered(prior, Pack(channel, value))

NextDecode == Parse \/ Process \/ Sleep

SpecDecode == InitDecode /\ [][NextDecode]_vars

(***************************************************************************)
(* The display state under its lock, one statement at a time.  A write is  *)
(* either an attribute assignment (self.f = v, index 0: a list value is a  *)
(* new list object) or an item assignment (self.f[i] = v, the list object  *)
(* is changed in place; index 1 is the source's [0]).                      *)
(***************************************************************************)
ListFields == {"prog", "verb", "noun", "r1", "r2", "r3"}

AttrWrite(f, v) == [f |-> f, i |-> 0, v |-> v]
ItemWrite(f, i, v) == [f |-> f, i |-> i, v |-> v]

Store(ds, w) == IF w.i = 0 THEN [ds EXCEPT ![w.f] = w.v] ELSE [ds EXCEPT ![w.f][w.i] = w.v]

\* the statements of decode_channel10 inside its "with lock:" block (set_prog,
\* set_verb and set_noun take the lock themselves); none for relay 12 and
\* for the relay codes no branch matches
Writes10(value) ==
    LET relay == BitAnd(ShiftR(value, 11), 15)
        sign_bit == BitAnd(ShiftR(value, 10), 1)
        d1 == OrZero(seven_segment_to_digit(BitAnd(ShiftR(value, 5), 31)))
        d2 == OrZero(seven_segment_to_digit(BitAnd(value, 31)))
    IN  CASE relay = 11 -> <<AttrWrite("prog", <<d1, d2>>)>>
          [] relay = 10 -> <<AttrWrite("verb", <<d1, d2>>)>>
          [] relay = 9  -> <<AttrWrite("noun", <<d1, d2>>)>>
          [] relay = 8  -> <<ItemWrite("r1", 1, d1), ItemWrite("r1", 2, d2)>>
          [] relay = 7  -> <<ItemWrite("r1", 3, d1), ItemWrite("r1", 4, d2),
                             AttrWrite("r1_sign", SignOf(sign_bit))>>
          [] relay = 6  -> <<ItemWrite("r1", 4, d1), ItemWrite("r1", 5, d2)>>
          [] relay = 5  -> <<ItemWrite("r2", 1, d1), ItemWrite("r2", 2, d2),
                             AttrWrite("r2_sign", SignOf(sign_bit))>>
          [] relay = 4  -> <<ItemWrite("r2", 3, d1), ItemWrite("r2", 4, d2)>>
          [] relay = 3  -> <<ItemWrite("r2", 5, d1), ItemWrite("r3", 1, d2)>>
          [] relay = 2  -> <<ItemWrite("r3", 2, d1), ItemWrite("r3", 3, d2),
                             AttrWrite("r3_sign", SignOf(sign_bit))>>
          [] relay = 1  -> <<ItemWrite("r3", 4, d1), ItemWrite("r3", 5, d2)>>
          [] OTHER -> << >>

Writes11(value) == <<AttrWrite("comp_acty", BitAnd(ShiftR(value, 1), 1) # 0)>>

\* process_packet: the locked writes its dispatch leads to
WritesOf(channel, value) ==
    IF channel = Channel10 THEN Writes10(value)
    ELSE IF channel = Channel11 THEN Writes11(value)
    ELSE << >>

\* the "with lock:" block the communication thread stands before: connect()'s
\* two (connected = True on success, = False on giving up) and the decoder's
CommWrites ==
    CASE pc = "set_connected" -> <<AttrWrite("connected", TRUE)>>
      [] pc = "giveup" -> <<AttrWrite("connected", FALSE)>>
      [] pc = "process" /\ packet # NoPacket -> WritesOf(packet[1], packet[2])
      [] OTHER -> << >>

CommAfter ==
    CASE pc = "set_connected" -> "loop"
      [] pc = "giveup" -> "connect_failed"
      [] OTHER -> "sleep"

\* if packet: process_packet(...) with no locked block to enter (no packet, a
\* channel or relay code that is ignored)
ProcessNoLock ==
    /\ pc = "process"
    /\ CommWrites = << >>
    /\ events' = IF packet # NoPacket THEN Append(events, packet) ELSE events
    /\ pc' = "sleep"
    /\ UNCHANGED <<display_state, socket, running, commLocals, main_pc, envVars, fixed>>
    /\ UNCHANGED <<group_starts, retry_waits, last_recv>>

\* a bug: the block entered without taking the lock
CommLock_no_lock ==
    /\ pc \in {"set_connected", "giveup", "process"}
    /\ CommWrites # << >>
    /\ pending.comm = << >>
    /\ pending' = [pending EXCEPT !.comm = CommWrites]
    /\ UNCHANGED <<display_state, socket, running, pc, commLocals, main_pc, envVars, history>>
    /\ UNCHANGED <<reconnect_max_attempts, sent, lock, reading, snapshot, shared, simVars>>

\* with display_state.lock: (the thread waits while the lock is held)
CommLock ==
    /\ pc \in {"set_connected", "giveup", "process"}
    /\ CommWrites # << >>
    /\ lock = "free"
    /\ lock' = "comm"
    /\ pending' = [pending EXCEPT !.comm = CommWrites]
    /\ UNCHANGED <<display_state, socket, running, pc, commLocals, main_pc, envVars, history>>
    /\ UNCHANGED <<reconnect_max_attempts, sent, reading, snapshot, shared, simVars>>

\* the next assignment of the block the thread is in.  An item assignment
\* changes the list object, and with it a snapshot that holds the same
\* object; an attribute assignment binds a new object.
LockedWrite(thread) ==
    /\ pending[thread] # << >>
    /\ LET w == Head(pending[thread]) IN
         /\ display_state' = Store(display_state, w)
         /\ snapshot' = IF w.i > 0 /\ w.f \in shared THEN Store(snapshot, w) ELSE snapshot
         /\ shared' = IF w.i = 0 THEN shared \ {w.f} ELSE shared
    /\ pending' = [pending EXCEPT ![thread] = Tail(pending[thread])]
    /\ UNCHANGED <<socket, running, pc, commLocals, main_pc, envVars, history>>
    /\ UNCHANGED <<reconnect_max_attempts, sent, lock, reading, simVars>>

CommWrite == LockedWrite("comm")
MainWrite == LockedWrite("main")

\* the end of the block: the lock is released and the thread goes on
CommUnlock ==
    /\ lock = "comm"
    /\ pending.comm = << >>
    /\ lock' = "free"
    /\ events' = IF pc = "process" THEN Append(events, packet) ELSE events
    /\ pc' = CommAfter
    /\ UNCHANGED <<display_state, socket, running, commLocals, main_pc, envVars>>
    /\ UNCHANGED <<group_starts, retry_waits, last_recv>>
    /\ UNCHANGED <<reconnect_max_attempts, sent, pending, reading, snapshot, shared, simVars>>

(***************************************************************************)
(* get_snapshot(), called by render() in the main thread                   *)
(***************************************************************************)
\* the keys of the dict literal, in the order their values are evaluated
SnapshotFields ==
    <<"prog", "verb", "noun", "r1", "r2", "r3",
      "r1_sign", "r2_sign", "r3_sign", "comp_acty", "connected">>

\* a bug: the lists returned without .copy()
Copied_no_copy(fields) == {}

\* which of the list fields get_snapshot copies: all six
Copied(fields) == fields

\* a bug: get_snapshot reads without taking the lock
SnapshotLock_no_lock ==
    /\ main_pc = "run"
    /\ main_pc' = "snapshot"
    /\ reading' = << >>
    /\ UNCHANGED <<display_state, socket, running, pc, commLocals, envVars, history>>
    /\ UNCHANGED <<reconnect_max_attempts, sent, lock, pending, snapshot, shared, simVars>>

\* render(): snapshot = self.state.get_snapshot(): with self.lock:
SnapshotLock ==
    /\ main_pc = "run"
    /\ lock = "free"
    /\ lock' = "main"
    /\ main_pc' = "snapshot"
    /\ reading' = << >>
    /\ UNCHANGED <<display_state, socket, running, pc, commLocals, envVars, history>>
    /\ UNCHANGED <<reconnect_max_attempts, sent, pending, snapshot, shared, simVars>>

\* the next value of the dict literal is evaluated
SnapshotRead ==
    /\ main_pc = "snapshot"
    /\ Len(reading) < Len(SnapshotFields)
    /\ reading' = Append(reading, display_state[SnapshotFields[Len(reading) + 1]])
    /\ UNCHANGED <<display_state, socket, running, pc, commLocals, main_pc, envVars, history>>
    /\ UNCHANGED <<reconnect_max_attempts, sent, lock, pending, snapshot, shared, simVars>>

\* return {...}: the lock is released, render() has its snapshot
SnapshotReturn ==
    /\ main_pc = "snapshot"
    /\ Len(reading) = Len(SnapshotFields)
    /\ snapshot' = [f \in DOMAIN display_state |->
                       reading[CHOOSE n \in DOMAIN SnapshotFields : SnapshotFields[n] = f]]
    /\ shared' = ListFields \ Copied(ListFields)
    /\ reading' = << >>
    /\ lock' = "free"
    /\ main_pc' = "run"
    /\ UNCHANGED <<display_state, socket, running, pc, commLocals, envVars, history>>
    /\ UNCHANGED <<reconnect_max_attempts, sent, pending, simVars>>

(***************************************************************************)
(* disconnect()'s last statement, one step at a time                       *)
(***************************************************************************)
\* with self.display_state.lock:
FlagLock ==
    /\ main_pc = "disconnect_flag"
    /\ lock = "free"
    /\ lock' = "main"
    /\ pending' = [pending EXCEPT !.main = <<AttrWrite("connected", FALSE)>>]
    /\ UNCHANGED <<display_state, socket, running, pc, commLocals, main_pc, envVars, history>>
    /\ UNCHANGED <<reconnect_max_attempts, sent, reading, snapshot, shared, simVars>>

\* the block ends, disconnect() and stop() return
FlagUnlock ==
    /\ main_pc = "disconnect_flag"
    /\ lock = "main"
    /\ pending.main = << >>
    /\ lock' = "free"
    /\ main_pc' = "stopped"
    /\ UNCHANGED <<display_state, socket, running, pc, commLocals, envVars, history>>
    /\ UNCHANGED <<reconnect_max_attempts, sent, pending, reading, snapshot, shared, simVars>>

(***************************************************************************)
(* The manual-control simulator (dsky_simulator.py), run by the main       *)
(* thread in simulation mode: display.run() hands it every KEYDOWN event.  *)
(***************************************************************************)
\* _get_max_digits
\* a bug: every element taken for a register
MaxDigitsOf_five(element) == 5

MaxDigitsOf(element) == IF element \in {"prog", "verb", "noun"} THEN 2 ELSE 5

Registers == {"r1", "r2", "r3"}

SignFieldOfRegister(element) ==
    CASE element = "r1" -> "r1_sign" [] element = "r2" -> "r2_sign" [] element = "r3" -> "r3_sign"

PatternWrites(p, v, n, r1, r2, r3, s1, s2, s3, acty) ==
    << AttrWrite("prog", p), AttrWrite("verb", v), AttrWrite("noun", n),
       AttrWrite("r1", r1), AttrWrite("r2", r2), AttrWrite("r3", r3),
       AttrWrite("r1_sign", s1), AttrWrite("r2_sign", s2), AttrWrite("r3_sign", s3),
       AttrWrite("comp_acty", acty) >>

pattern_blank ==
    PatternWrites(<<0, 0>>, <<0, 0>>, <<0, 0>>, <<0, 0, 0, 0, 0>>, <<0, 0, 0, 0, 0>>,
                  <<0, 0, 0, 0, 0>>, "None", "None", "None", FALSE)

pattern_all_eights ==
    PatternWrites(<<8, 8>>, <<8, 8>>, <<8, 8>>, <<8, 8, 8, 8, 8>>, <<8, 8, 8, 8, 8>>,
                  <<8, 8, 8, 8, 8>>, "+", "-", "+", TRUE)

pattern_test ==
    PatternWrites(<<0, 0>>, <<1, 6>>, <<3, 6>>, <<0, 0, 0, 0, 0>>, <<0, 0, 0, 0, 0>>,
                  <<0, 0, 0, 0, 0>>, "+", "+", "+", FALSE)

pattern_counting ==
    PatternWrites(<<1, 2>>, <<3, 4>>, <<5, 6>>, <<1, 2, 3, 4, 5>>, <<6, 7, 8, 9, 0>>,
                  <<9, 8, 7, 6, 5>>, "+", "-", "None", TRUE)

Patterns == {pattern_blank, pattern_all_eights, pattern_test, pattern_counting}

\* the main thread enters a simulator method's "with self.state.lock:" block
\* with these writes to make; after the block it is at `inside`
SimLock(writes, inside) ==
    /\ lock = "free"
    /\ lock' = "main"
    /\ pending' = [pending EXCEPT !.main = writes]
    /\ main_pc' = inside
    /\ UNCHANGED <<display_state, socket, running, pc, commLocals, envVars, history>>
    /\ UNCHANGED <<reconnect_max_attempts, sent, reading, snapshot, shared>>
    /\ UNCHANGED <<simulation_mode, selected_element, selected_digit>>

\* main(): simulator.pattern_test() before display.run(simulator)
SimStart ==
    /\ main_pc = "pattern_test"
    /\ SimLock(pattern_test, "key")
    /\ UNCHANGED keys

\* display.run() gets a KEYDOWN event and calls simulator.handle_keyboard
KeyDown ==
    /\ main_pc = "run"
    /\ simulation_mode
    /\ keys < MaxKeys
    /\ keys' = keys + 1

\* the digit keys pressed
KeyDigits == 0..9

\* 0-9: _set_digit(digit), the item assignment under the lock
KeyDigit ==
    /\ KeyDown
    /\ \E digit \in KeyDigits :
           SimLock(<<ItemWrite(selected_element, selected_digit + 1, digit)>>, "set_digit")

\* F1-F4: the patterns
KeyPattern ==
    /\ KeyDown
    /\ \E pattern \in Patterns : SimLock(pattern, "key")

\* the simulator's own fields change, the display state is not touched
Select(element, digit) ==
    /\ selected_element' = element
    /\ selected_digit' = digit
    /\ UNCHANGED <<display_state, socket, running, pc, commLocals, main_pc, envVars, history>>
    /\ UNCHANGED <<reconnect_max_attempts, sent, renderVars, simulation_mode>>

\* P, V, N: select the pair, digit 0
KeySelect ==
    /\ KeyDown
    /\ \E element \in {"prog", "verb", "noun"} : Select(element, 0)

\* R: cycle r1 -> r2 -> r3, from anything else to r1; digit 0
KeyRegister ==
    /\ KeyDown
    /\ Select(IF selected_element = "r1" THEN "r2"
              ELSE IF selected_element = "r2" THEN "r3" ELSE "r1", 0)

\* + and -: _set_sign on a selected register
KeySign ==
    /\ KeyDown
    /\ selected_element \in Registers
    /\ \E sign \in {"+", "-"} :
           SimLock(<<AttrWrite(SignFieldOfRegister(selected_element), sign)>>, "key")

\* + and - with a pair selected: _set_sign prints and returns
KeySignIgnored ==
    /\ KeyDown
    /\ selected_element \notin Registers
    /\ Select(selected_element, selected_digit)

\* C and E: comp_acty / connected = not itself, read and written under the lock
KeyToggle ==
    /\ KeyDown
    /\ \E f \in {"comp_acty", "connected"} :
           SimLock(<<AttrWrite(f, ~display_state[f])>>, "key")

\* LEFT and RIGHT: selected_digit = (selected_digit -/+ 1) % max_digits
KeyArrow ==
    /\ KeyDown
    /\ \E step \in {-1, 1} :
           Select(selected_element, (selected_digit + step) % MaxDigitsOf(selected_element))

\* the simulator's "with" block ends; _set_digit then advances the cursor:
\* self.selected_digit = (self.selected_digit + 1) % max_digits
SimUnlock ==
    /\ main_pc \in {"key", "set_digit"}
    /\ lock = "main"
    /\ pending.main = << >>
    /\ lock' = "free"
    /\ main_pc' = "run"
    /\ selected_digit' = IF main_pc = "set_digit"
                           THEN (selected_digit + 1) % MaxDigitsOf(selected_element)
                           ELSE selected_digit
    /\ UNCHANGED <<display_state, socket, running, pc, commLocals, envVars, history>>
    /\ UNCHANGED <<reconnect_max_attempts, sent, pending, reading, snapshot, shared>>
    /\ UNCHANGED <<simulation_mode, selected_element, keys>>

\* ESC or the window closed: display.run() returns and main() ends
SimQuit ==
    /\ main_pc = "run"
    /\ simulation_mode
    /\ main_pc' = "stopped"
    /\ UNCHANGED <<display_state, socket, running, pc, commLocals, envVars, history, fixed>>

Simulator ==
    \/ SimStart \/ KeyDigit \/ KeyPattern \/ KeySelect \/ KeyRegister \/ KeySign
    \/ KeySignIgnored \/ KeyToggle \/ KeyArrow \/ SimUnlock \/ SimQuit

(***************************************************************************)
(* The program at the granularity of the lock.  In communication mode the  *)
(* communication thread has connected and is about to set the flag (or has *)
(* used up its attempts and is about to clear it), the peer has sent two   *)
(* frames, and the main thread renders until it calls stop(); in           *)
(* simulation mode there is no communicator, the main thread runs the      *)
(* simulator and renders.                                                  *)
(***************************************************************************)
\* the frames the peer may send: every kind of relay code, both decoded
\* channels, channels that are ignored, digit fields of every recovery stage
RenderFrames ==
    { Pack(Channel10, DisplayValue(11, 0, 1, 6)),
      Pack(Channel10, DisplayValue(8, 1, 31, 10)),
      Pack(Channel10, DisplayValue(7, 1, 27, 29)),
      Pack(Channel10, DisplayValue(6, 0, 9, 0)),
      Pack(Channel10, DisplayValue(3, 0, 15, 13)),
      Pack(Channel10, DisplayValue(2, 0, 7, 26)),
      Pack(Channel10, DisplayValue(12, 1, 3, 4)),
      Pack(Channel10, DisplayValue(0, 0, 5, 5)),
      Pack(Channel11, 2),
      Pack(Channel11, 32765),
      Pack(10, DisplayValue(11, 0, 1, 6)),
      Pack(127, 32767),
      Pack(0, 0) }

\* frames whose digit fields between them take every 5-bit value, over the
\* relay codes 1..11 and both sign bits
DigitFrames ==
    {Pack(Channel10, DisplayValue((k % 11) + 1, k % 2, 2 * k, (2 * k) + 1)) : k \in 0..15}

CommMode(at, bytes, got, n) ==
    /\ display_state = DisplayStateInit
    /\ socket = "open"
    /\ running = TRUE
    /\ pc = at
    /\ attempts = n
    /\ input_buffer = <<0, 0, 0, 0>>
    /\ left_to_read = 0
    /\ packet = NoPacket
    /\ main_pc = "run"
    /\ reconnect_max_attempts = n
    /\ stream = bytes
    /\ arrived = got
    /\ pos = 0
    /\ link = IF got = 0 THEN "down" ELSE "up"
    /\ events = << >>
    /\ group_starts = << >>
    /\ retry_waits = IF n = 0 THEN 0 ELSE n - 1
    /\ last_recv = "none"
    /\ sent = << >>
    /\ RenderIdle

SimulationMode ==
    /\ display_state = DisplayStateInit
    /\ socket = "None"
    /\ running = FALSE
    /\ pc = "none"
    /\ attempts = 0
    /\ input_buffer = <<0, 0, 0, 0>>
    /\ left_to_read = 0
    /\ packet = NoPacket
    /\ main_pc = "pattern_test"
    /\ reconnect_max_attempts = 0
    /\ stream = << >>
    /\ arrived = 0
    /\ pos = 0
    /\ link = "down"
    /\ events = << >>
    /\ group_starts = << >>
    /\ retry_waits = 0
    /\ last_recv = "none"
    /\ sent = << >>
    /\ lock = "free"
    /\ pending = NoWrites
    /\ reading = << >>
    /\ snapshot = NoSnapshot
    /\ shared = {}
    /\ simulation_mode = TRUE
    /\ selected_element = "prog"
    /\ selected_digit = 0
    /\ keys = 0

InitRender ==
    \/ \E first \in RenderFrames, second \in RenderFrames \cup DigitFrames :
           CommMode("set_connected", first \o second, 8, 0)
    \/ \E first \in RenderFrames : CommMode("giveup", first, 0, 1)
    \/ SimulationMode

\* the communication thread
CommRender ==
    \/ CommLock \/ CommWrite \/ CommUnlock \/ ProcessNoLock
    \/ ConnectFailed \/ LoopCheck \/ RecvData \/ RecvBlocked \/ RecvNoSocket \/ Parse \/ Sleep

\* main(): display.run() has returned in communication mode: communicator.stop()
StopCommunicator == ~simulation_mode /\ StopSetRunning

\* the main thread in communication mode: render, then stop()
MainRender ==
    \/ SnapshotLock \/ SnapshotRead \/ SnapshotReturn
    \/ StopCommunicator \/ DisconnectClose \/ DisconnectClear
    \/ FlagLock \/ MainWrite \/ FlagUnlock

NextRender == CommRender \/ MainRender \/ Simulator

SpecRender == InitRender /\ [][NextRender]_vars

\* simulation mode alone: main() runs pattern_test(), then display.run() hands
\* every KEYDOWN event to handle_keyboard
RECURSIVE StoreAll(_, _)
StoreAll(ds, writes) ==
    IF writes = << >> THEN ds ELSE StoreAll(Store(ds, Head(writes)), Tail(writes))

\* the display main() shows when display.run() starts
TestDisplay == StoreAll(DisplayStateInit, pattern_test)

\* display.run() is waiting for events; the user has selected an element (P,
\* V, N, or R up to three times: digit 0) and pressed RIGHT some times
Positioned(element, presses) ==
    /\ display_state = TestDisplay
    /\ socket = "None"
    /\ running = FALSE
    /\ pc = "none"
    /\ attempts = 0
    /\ input_buffer = <<0, 0, 0, 0>>
    /\ left_to_read = 0
    /\ packet = NoPacket
    /\ main_pc = "run"
    /\ reconnect_max_attempts = 0
    /\ stream = << >>
    /\ arrived = 0
    /\ pos = 0
    /\ link = "down"
    /\ events = << >>
    /\ group_starts = << >>
    /\ retry_waits = 0
    /\ last_recv = "none"
    /\ sent = << >>
    /\ lock = "free"
    /\ pending = NoWrites
    /\ reading = << >>
    /\ snapshot = NoSnapshot
    /\ shared = {}
    /\ simulation_mode = TRUE
    /\ selected_element = element
    /\ selected_digit = presses % MaxDigitsOf(element)
    /\ keys = 0

InitSimulator ==
    \/ SimulationMode
    \/ \E element \in ListFields, presses \in 0..4 : Positioned(element, presses)

NextSimulator == Simulator \/ MainWrite

SpecSimulator == InitSimulator /\ [][NextSimulator]_vars

(***************************************************************************)
(* Properties                                                              *)
(***************************************************************************)
\* both frames of the pipeline scenario have been parsed and handed to process_packet
PipelineDone == Len(events) = 2

\* C1 (as stated): for any digits a, b, c, d, the frame for channel 10 (the
\* number ten) with value (11<<11)|(a<<5)|b followed by the frame for channel 10
\* with value (10<<11)|(c<<5)|d leaves prog = [a,b] and verb = [c,d].
C1_PipelineChannelTen ==
    (sent.channel = 10 /\ PipelineDone) =>
        /\ display_state.prog = <<sent.a, sent.b>>
        /\ display_state.verb = <<sent.c, sent.d>>

\* C1 (amended): the same with the frames carrying channel 0o10 (octal 10, the
\* number eight), the channel process_packet routes to decode_channel10: the
\* final state has prog = [a,b] and verb = [c,d].
C1_PipelineChannelOctal10 ==
    (sent.channel = 8 /\ PipelineDone) =>
        /\ display_state.prog = <<sent.a, sent.b>>
        /\ display_state.verb = <<sent.c, sent.d>>

C1_Witness ==
    /\ sent = [channel |-> 8, a |-> 1, b |-> 6, c |-> 3, d |-> 7]
    /\ PipelineDone
    /\ display_state.prog = <<1, 6>>
    /\ display_state.verb = <<3, 7>>

\* the tag pattern of the wire format, byte by byte
Tag0(buf) == buf[1] \div 16 = 0
Tag1(buf) == buf[2] \div 64 = 1
Tag2(buf) == buf[3] \div 64 = 2
Tag3(buf) == buf[4] \div 64 = 3

\* the inverse packing, in plain arithmetic
Repack(channel, value) ==
    << channel \div 8,
       64 + ((channel % 8) * 8) + (value \div 4096),
       128 + ((value \div 64) % 64),
       192 + (value % 64) >>

\* C2: a 4-byte group whose four tags match decodes to a (channel, value) pair
\* with channel in 0..127 and value in 0..32767, and packing that pair again
\* gives back the same four bytes.
C2_FrameRoundTrip ==
    (pc = "process" /\ Tag0(input_buffer) /\ Tag1(input_buffer)
                    /\ Tag2(input_buffer) /\ Tag3(input_buffer)) =>
        /\ packet # NoPacket
        /\ packet[1] \in 0..127
        /\ packet[2] \in 0..32767
        /\ Repack(packet[1], packet[2]) = input_buffer

C2_Witness ==
    /\ pc = "process"
    /\ input_buffer = <<15, 127, 170, 213>>
    /\ packet = <<127, 31381>>

\* C3: a 4-byte group in which the tag of any one byte position is wrong
\* decodes to nothing, whatever the other bits are.
C3_TagRejection ==
    pc = "process" =>
        /\ ~Tag0(input_buffer) => packet = NoPacket
        /\ ~Tag1(input_buffer) => packet = NoPacket
        /\ ~Tag2(input_buffer) => packet = NoPacket
        /\ ~Tag3(input_buffer) => packet = NoPacket

C3_Witness ==
    /\ pc = "process"
    /\ Tag0(input_buffer) /\ Tag1(input_buffer) /\ Tag2(input_buffer)
    /\ ~Tag3(input_buffer)
    /\ packet = NoPacket

\* the k-th aligned 4-byte group of the stream, and the events that the first
\* n bytes of the stream decode to when they are cut into aligned groups
Group(k) == SubSeq(stream, 4 * k - 3, 4 * k)

RECURSIVE AlignedEvents(_)
AlignedEvents(k) ==
    IF k = 0 THEN << >>
    ELSE IF ParsePacket(Group(k)) = NoPacket THEN AlignedEvents(k - 1)
    ELSE Append(AlignedEvents(k - 1), ParsePacket(Group(k)))

\* one call of recv_into, whatever its outcome
RecvAttempt == RecvData \/ RecvBlocked \/ RecvEof \/ RecvError \/ RecvNoSocket

\* C4: partial reads are accumulated. On one connection (stop() not called),
\* whenever the thread is about to call recv_into the byte count it asks for is
\* what is missing from the current 4-byte group of the stream, and between
\* reads the events decoded so far are those of the aligned groups of the bytes
\* consumed: the same events as without interruption, no byte lost.
C4_PartialReadsAccumulated ==
    main_pc = "run" =>
        /\ pc = "recv" => left_to_read = 4 - (pos % 4)
        /\ pc = "sleep" => events = AlignedEvents(pos \div 4)

\* C5: once a read has returned zero bytes, no further read is attempted.
C5_NoReadAfterEof == [][last_recv = "eof" => ~RecvAttempt]_vars

\* C6: once a read has failed with a transport error, no further read is
\* attempted; a would-block leaves the display state unchanged and the loop
\* goes on (to its sleep and the next iteration).
C6_ErrorEndsLoop ==
    [][/\ last_recv = "error" => ~RecvAttempt
       /\ RecvBlocked => (display_state' = display_state /\ pc' = "sleep")]_vars

\* C7: on one connection, a complete group that fails tag validation changes no
\* display field, and frame boundaries never shift: the i-th complete group
\* starts at stream offset 4(i-1).
C7_NoBoundaryShift ==
    [][main_pc = "run" =>
        /\ (pc = "process" /\ packet = NoPacket) => display_state' = display_state
        /\ \A i \in DOMAIN group_starts' : group_starts'[i] = 4 * (i - 1)]_vars

\* C8: with a maximum attempt count N > 0, connect() gives up after exactly N
\* failed attempts and N-1 waits, with the connectivity flag false, and
\* communication_loop then ends without a single read.
C8_BoundedRetry ==
    reconnect_max_attempts > 0 =>
        /\ pc = "giveup" =>
              /\ attempts = reconnect_max_attempts
              /\ retry_waits = reconnect_max_attempts - 1
        /\ pc = "connect_failed" =>
              /\ attempts = reconnect_max_attempts
              /\ retry_waits = reconnect_max_attempts - 1
              /\ display_state.connected = FALSE
              /\ last_recv = "none"
        /\ (pc = "done" /\ attempts = reconnect_max_attempts) =>
              /\ retry_waits = reconnect_max_attempts - 1
              /\ display_state.connected = FALSE
              /\ last_recv = "none"
              /\ running = FALSE
        /\ attempts <= reconnect_max_attempts
        /\ retry_waits <= attempts

C8_Witness ==
    /\ reconnect_max_attempts = 2
    /\ pc = "done"
    /\ attempts = 2
    /\ retry_waits = 1
    /\ display_state.connected = FALSE
    /\ last_recv = "none"

\* C9: the connectivity flag is false before the thread has run and all the
\* time connect() is trying or retrying.
C9_FlagFalseUntilConnected ==
    pc \in {"start", "create_socket", "connect", "retry_sleep"} =>
        display_state.connected = FALSE

\* both threads are scheduled: the communication thread runs whenever it can,
\* and a stop() that has begun runs to its end
StopRest == DisconnectClose \/ DisconnectClear \/ DisconnectFlag

FairSpec == Spec /\ WF_vars(CommThread) /\ WF_vars(StopRest)

\* connect() alone, up to its return: the thread is scheduled until connect()
\* has returned, the peer accepts or refuses each attempt as it likes, and
\* stop() may be called at any moment
NextConnect == Connect \/ MainThread

FairConnect == Init /\ [][NextConnect]_vars /\ WF_vars(Connect) /\ WF_vars(StopRest)

\* C10: after stop() has been called, the communication thread terminates.
C10_StopTerminates == (main_pc # "run") ~> (pc \in {"done", "crashed"})

\* C11: once stop() has returned, the connectivity flag is false, and no later
\* step of the communication thread sets it back to true.
C11_FlagStaysFalseAfterStop == main_pc = "stopped" => display_state.connected = FALSE

\* the display fields other than the connectivity flag
OtherFields ==
    {"prog", "verb", "noun", "r1", "r2", "r3", "r1_sign", "r2_sign", "r3_sign", "comp_acty"}

\* C12: disconnect() is idempotent. With the communication thread at rest,
\* every completed call leaves the socket closed and released and the flag
\* false; a call made when the socket is already released and the flag already
\* false (a second call) changes nothing at all; a call with no socket ever
\* opened ends in that same state; no step of disconnect() changes another
\* display field, and no step of it can fail to proceed.
C12_DisconnectIdempotent ==
    [][ /\ main_pc' = "stopped" =>
               (socket' = "None" /\ link' = "down" /\ display_state'.connected = FALSE)
        /\ \A f \in OtherFields : display_state'[f] = display_state[f]
        /\ (socket = "None" /\ display_state.connected = FALSE) =>
               (socket' = socket /\ link' = link /\ display_state' = display_state)
        /\ main_pc' \in {"disconnect", "disconnect_clear", "disconnect_flag"} =>
               (ENABLED StopRest)' ]_vars

\* a second call on a communicator that had decoded traffic: it passed
\* "if self.socket" with nothing to close and the flag is already false
C12_Witness ==
    /\ main_pc = "disconnect_flag"
    /\ socket = "None"
    /\ display_state.connected = FALSE
    /\ display_state.prog = <<1, 6>>

(***************************************************************************)
(* The channel decoder, one event at a time (SpecDecode).  The bit fields  *)
(* of a value are written here arithmetically, as the format says:         *)
(* AAAA relay (bits 11-14), B sign (bit 10), CCCCC and DDDDD digit fields. *)
(***************************************************************************)
RelayCode(value) == (value \div 2048) % 16
SignFlag(value) == (value \div 1024) % 2
DigitField1(value) == (value \div 32) % 32
DigitField2(value) == value % 32

\* process_packet is about to run on an event of this channel
Decoding(channel) == pc = "process" /\ packet # NoPacket /\ packet[1] = channel

\* the event that Process has just handled, and its place after Filled's traffic
Decoded(channel, value) ==
    pc = "sleep" /\ Len(events) = Len(FillTraffic) + 1 /\ events[Len(events)] = <<channel, value>>

PairOf(relay) == CASE relay = 11 -> "prog" [] relay = 10 -> "verb" [] relay = 9 -> "noun"

\* relay -> register and (1-based) slot of digit 1, register and slot of digit 2
SlotsOf(relay) ==
    CASE relay = 8 -> <<"r1", 1, "r1", 2>>
      [] relay = 7 -> <<"r1", 3, "r1", 4>>
      [] relay = 6 -> <<"r1", 4, "r1", 5>>
      [] relay = 5 -> <<"r2", 1, "r2", 2>>
      [] relay = 4 -> <<"r2", 3, "r2", 4>>
      [] relay = 3 -> <<"r2", 5, "r3", 1>>
      [] relay = 2 -> <<"r3", 2, "r3", 3>>
      [] relay = 1 -> <<"r3", 4, "r3", 5>>

SignFieldOf(relay) == CASE relay = 7 -> "r1_sign" [] relay = 5 -> "r2_sign" [] relay = 2 -> "r3_sign"

WriteSlots(ds, relay, d1, d2) ==
    LET sl == SlotsOf(relay)
        first == [ds EXCEPT ![sl[1]][sl[2]] = d1]
    IN  [first EXCEPT ![sl[3]][sl[4]] = d2]

\* C16: a channel-10 value with relay code 11, 10 or 9 whose digit fields
\* recover to d1 and d2 sets prog, verb or noun to [d1, d2] and leaves every
\* other display field unchanged, whatever the sign bit is.
C16_PairRelays ==
    [][ \A relay \in {11, 10, 9} :
          (Decoding(Channel10) /\ RelayCode(packet[2]) = relay) =>
              LET d1 == seven_segment_to_digit(DigitField1(packet[2]))
                  d2 == seven_segment_to_digit(DigitField2(packet[2]))
              IN  (d1 # None /\ d2 # None) =>
                      display_state' = [display_state EXCEPT ![PairOf(relay)] = <<d1, d2>>] ]_vars

\* relay 10 with the sign bit set and the fields 27 and 29 (which recover to 2
\* and 6) has been decoded on the filled display: verb = 26, prog still 12
C16_Witness ==
    /\ Decoded(Channel10, 10 * 2048 + 1024 + 27 * 32 + 29)
    /\ display_state.verb = <<2, 6>>
    /\ display_state.prog = <<1, 2>>
    /\ display_state.r1_sign = "-"

C18_UnsignedRelays ==
    [][ \A relay \in {8, 6, 4, 3, 1} :
          (Decoding(Channel10) /\ RelayCode(packet[2]) = relay) =>
              display_state' = WriteSlots(display_state, relay,
                                          seven_segment_to_digit(DigitField1(packet[2])),
                                          seven_segment_to_digit(DigitField2(packet[2]))) ]_vars

\* relay 3 with sign bit 1 and digits 7, 8 on the filled display: r2[4] = 7,
\* r3[0] = 8, the signs as they were
C18_Witness ==
    /\ Decoded(Channel10, 3 * 2048 + 1024 + 7 * 32 + 8)
    /\ display_state.r2 = <<6, 7, 8, 9, 7>>
    /\ display_state.r3 = <<8, 3, 4, 5, 6>>
    /\ display_state.r2_sign = "+"
    /\ display_state.r3_sign = "-"

\* C19: a channel-10 value whose relay code is 12, 0, 13, 14 or 15 changes no
\* display field and raises no error (the thread goes on to its sleep), for
\* every sign bit and every pair of digit fields.
C19_IgnoredRelays ==
    [][ (Decoding(Channel10) /\ RelayCode(packet[2]) \in {12, 0, 13, 14, 15}) =>
            (display_state' = display_state /\ pc' = "sleep") ]_vars

\* relay 12 with sign bit 1 and digit fields 1, 6 has been handled on the
\* filled display, which still shows what it showed
C19_Witness ==
    /\ Decoded(Channel10, 12 * 2048 + 1024 + 1 * 32 + 6)
    /\ display_state = Filled.display_state

\* C20: for every 15-bit value on channel 11 the decoder sets comp_acty to
\* true exactly when bit 1 of the value is 1, and changes no other field.
C20_CompActyBit1 ==
    [][ Decoding(Channel11) =>
            display_state' =
                [display_state EXCEPT !.comp_acty = ((packet[2] \div 2) % 2 = 1)] ]_vars

\* value 32765 (every bit but bit 1) has been decoded on the filled display,
\* whose comp_acty was true: it is now false
C20_Witness ==
    /\ Decoded(Channel11, 32765)
    /\ display_state.comp_acty = FALSE
    /\ display_state.prog = <<1, 2>>

(***************************************************************************)
(* Snapshots and the lock (SpecRender)                                     *)
(***************************************************************************)
ValidDigits(digits, n) == Len(digits) = n /\ \A i \in 1..n : digits[i] \in 0..9

\* C13: every snapshot taken while channel events are decoded has prog, verb
\* and noun of exactly 2 digits, r1, r2 and r3 of exactly 5 digits, every
\* digit in 0..9 and every sign unset, positive or negative.
C13_ValidSnapshot ==
    snapshot # NoSnapshot =>
        /\ \A f \in {"prog", "verb", "noun"} : ValidDigits(snapshot[f], 2)
        /\ \A f \in {"r1", "r2", "r3"} : ValidDigits(snapshot[f], 5)
        /\ \A f \in {"r1_sign", "r2_sign", "r3_sign"} : snapshot[f] \in {"None", "+", "-"}

\* a snapshot taken between two events: it shows what relay 8 wrote from the
\* fields 31 and 10 (digits 8 and 0), and the live state has moved on
C13_Witness ==
    /\ snapshot # NoSnapshot
    /\ snapshot.r1 = <<8, 0, 0, 0, 0>>
    /\ Len(events) = 2
    /\ display_state.r1 # snapshot.r1

\* the step is an assignment by this thread inside its block
WriteBy(thread) == pending[thread] # << >> /\ pending'[thread] = Tail(pending[thread])

\* C14: lock discipline.  Every change of a display field is an assignment
\* made by a thread (decoder, connect, disconnect, simulator) while it holds
\* the lock; get_snapshot reads every one of its eleven fields while the main
\* thread holds the lock, in one hold from before the first read to the
\* return; and no field changes between the first read and the return.
C14_LockDiscipline ==
    [][ /\ \A thread \in {"comm", "main"} : WriteBy(thread) => (lock = thread /\ lock' = thread)
        /\ display_state' # display_state => \E thread \in {"comm", "main"} : WriteBy(thread)
        /\ reading' # reading => (lock = "main" \/ lock' = "main")
        /\ main_pc' = "snapshot" => lock' = "main"
        /\ (main_pc = "snapshot" /\ main_pc' # "snapshot") =>
               (Len(reading) = Len(SnapshotFields) /\ snapshot' = display_state)
        /\ main_pc = "snapshot" => display_state' = display_state ]_vars

\* get_snapshot has read five fields while the communication thread stands
\* before the decoder's block with writes to make, kept out by the lock
C14_Witness ==
    /\ main_pc = "snapshot"
    /\ Len(reading) = 5
    /\ lock = "main"
    /\ pc = "process"
    /\ CommWrites # << >>
    /\ display_state.prog = <<1, 6>>

\* C15: a returned snapshot is independent of the live state.  Only the
\* return of a new get_snapshot() changes what the consumer holds: no
\* assignment to Display State (attribute or in-place item assignment) does;
\* and the snapshot has no list object in common with Display State, so a
\* change made to the snapshot cannot reach Display State either.
C15_SnapshotIndependent ==
    [][ /\ (main_pc = "snapshot" /\ main_pc' = "run") \/ snapshot' = snapshot
        /\ shared' = {} ]_vars

\* the simulator has written a 9 in place into prog[0] after render() took
\* its snapshot, which still shows 0
C15_Witness ==
    /\ simulation_mode
    /\ main_pc = "run"
    /\ snapshot # NoSnapshot
    /\ snapshot.prog = <<0, 0>>
    /\ display_state.prog = <<9, 0>>

\* a frame of any channel is in process_packet's hands
Dispatching == pc = "process" /\ packet # NoPacket

\* C21 (as stated): for every channel number in 0..127 other than ten and eleven
\* and every value, process_packet changes no Display State field and returns
\* normally (the loop goes on to its sleep).
C21_OtherChannelsDecimal ==
    [][(Dispatching /\ packet[1] \notin {10, 11}) =>
          (display_state' = display_state /\ pc' = "sleep")]_vars

\* C21 (amended): for every channel number in 0..127 other than 0o10 and 0o11
\* (eight and nine) and every value, process_packet changes no Display State
\* field and returns normally.
C21_OtherChannelsOctal ==
    [][(Dispatching /\ packet[1] \notin {Channel10, Channel11}) =>
          (display_state' = display_state /\ pc' = "sleep")]_vars

\* channel number ten with a relay-11 word has been processed after Filled's
\* traffic and the program digits are still those of the earlier traffic
C21_Witness ==
    /\ Decoded(10, DisplayValue(11, 1, 27, 29))
    /\ display_state = Filled.display_state
    /\ display_state.prog = <<1, 2>>

(***************************************************************************)
(* Digit recovery, observed on the two 5-bit fields of the channel-10 word *)
(* that decode_channel10 is handed or has just handled.                    *)
(***************************************************************************)
Recovering == pc \in {"process", "sleep"} /\ packet # NoPacket /\ packet[1] = Channel10

DigitFields == {DigitField1(packet[2]), DigitField2(packet[2])}

\* C22: digit recovery is total: for every 5-bit input it returns, and the
\* result is a digit in 0..9 or blank.
C22_RecoveryTotal ==
    Recovering => \A bits \in DigitFields : seven_segment_to_digit(bits) \in (0..9) \cup {None}

\* the word with the fields 31 and 26 has been decoded: 31 is a table key,
\* 26 reaches the modulo stage
C22_Witness ==
    /\ Decoded(Channel10, DisplayValue(11, 0, 31, 26))
    /\ display_state.prog = <<8, 6>>

\* the digits the table's source text gives for a bit pattern
TableDigits(bits) ==
    {SEVEN_SEGMENT_TO_DIGIT[i][2] :
        i \in {j \in DOMAIN SEVEN_SEGMENT_TO_DIGIT : SEVEN_SEGMENT_TO_DIGIT[j][1] = bits}}

\* the results the first applicable stage allows: the value itself in 0..9,
\* a table entry of a table key, the trailing octal digit of a two-digit octal
\* numeral with leading digit 0, the value modulo 10
FirstStage(bits) ==
    IF bits \in 0..9 THEN {bits}
    ELSE IF TableDigits(bits) # {} THEN TableDigits(bits)
    ELSE IF bits \div 8 = 0 THEN {bits % 8}
    ELSE {bits % 10}

\* C23: digit recovery applies its stages in the order direct, table, octal,
\* modulo: the result is that of the first applicable stage; a pattern in 0..9
\* that is also a table key (6, 7, 0) yields its integer value, and a table
\* key above 9 yields a table digit, not the value modulo 10.
C23_StageOrder ==
    Recovering => \A bits \in DigitFields :
        /\ seven_segment_to_digit(bits) \in FirstStage(bits)
        /\ bits \in {6, 7, 0} => seven_segment_to_digit(bits) = bits
        /\ (bits > 9 /\ TableDigits(bits) # {}) =>
               /\ seven_segment_to_digit(bits) \in TableDigits(bits)
               /\ seven_segment_to_digit(bits) # bits % 10

\* the fields 6 (in 0..9 and a table key) and 29 (a table key above 9, 9 modulo
\* 10) have been decoded into the verb
C23_Witness ==
    /\ Decoded(Channel10, DisplayValue(10, 0, 6, 29))
    /\ display_state.verb = <<6, 6>>

\* C24: the lookup table is internally consistent: a bit pattern that is a key
\* maps to exactly one digit, no bit pattern is claimed by two different digits.
C24_TableConsistent ==
    Recovering => \A bits \in DigitFields : Cardinality(TableDigits(bits)) <= 1

Connecting ==
    pc \in {"start", "create_socket", "connect", "retry_sleep", "set_nonblocking",
            "set_connected", "giveup", "connect_failed"}

\* C26: no automatic reconnection: connect() is invoked once, before the first
\* read; once the thread has left connect() it never enters it again, whatever
\* the reads return.
C26_NoReconnect ==
    [][/\ pc' = "start" => pc = "start"
       /\ Connecting' => (Connecting /\ last_recv' = "none" /\ group_starts' = << >>)]_vars

\* the connection was reset, the read failed, and the loop is polling again
\* with the one connect() long over
C26_Witness ==
    /\ last_recv = "error"
    /\ pc = "recv"
    /\ link = "peer_closed"
    /\ ~Connecting

Boundary(k) == Replay(SubSeq(events, 1, k), DisplayStateInit)

\* C29: each channel event is applied atomically with respect to snapshots:
\* a snapshot shows the digit slots and the sign one decode_channel10 call
\* writes all together or not at all, that is, it shows the display as it
\* was between two events.
C29_EventAtomic ==
    (~simulation_mode /\ snapshot # NoSnapshot) =>
        \E k \in 0..Len(events) : \A f \in OtherFields : snapshot[f] = Boundary(k)[f]

\* the snapshot shows all of what relay 7 wrote (two digits and the sign)
\* while the communication thread is halfway through the block of relay 6
C29_Witness ==
    /\ snapshot # NoSnapshot
    /\ snapshot.r1 = <<0, 0, 2, 6, 0>>
    /\ snapshot.r1_sign = "-"
    /\ events = <<<<Channel10, DisplayValue(7, 1, 27, 29)>>>>
    /\ lock = "comm"
    /\ Len(pending.comm) = 1
    /\ display_state.r1 = <<0, 0, 2, 9, 0>>

\* C25: with the maximum attempt count 0, connect() never gives up: while
\* nobody calls stop(), every failed attempt is followed by another attempt,
\* and once the endpoint has accepted, connect() returns success with the
\* connectivity flag true.
C25_UnlimitedRetry ==
    /\ [](reconnect_max_attempts = 0 => pc \notin {"giveup", "connect_failed"})
    /\ []((reconnect_max_attempts = 0 /\ main_pc = "run" /\ last_recv = "none") =>
              pc \notin {"done", "crashed"})
    /\ (reconnect_max_attempts = 0 /\ pc = "retry_sleep") ~> (pc = "connect" \/ main_pc # "run")
    /\ (reconnect_max_attempts = 0 /\ pc = "set_nonblocking") ~>
           ((pc = "loop" /\ display_state.connected) \/ main_pc # "run")

\* connect() has returned success after at least two failed attempts and two
\* waits, with no limit set and no stop()
C25_Witness ==
    /\ reconnect_max_attempts = 0
    /\ attempts >= 2
    /\ retry_waits >= 2
    /\ pc = "loop"
    /\ display_state.connected
    /\ link = "up"
    /\ main_pc = "run"

\* C28: loss of the connection is reported: after a read has returned zero
\* bytes or failed with a transport error, the connectivity flag eventually
\* becomes false in every run in which nobody calls disconnect() or stop().
C28_LossReported ==
    (last_recv \in {"eof", "error"} /\ main_pc = "run") ~>
        (display_state.connected = FALSE \/ main_pc # "run")

\* the processed events that carry the sign of a register: channel 0o10 with
\* relay code 7 (r1), 5 (r2) or 2 (r3)
SignEvents(relay) ==
    {i \in DOMAIN events : events[i][1] = Channel10 /\ RelayCode(events[i][2]) = relay}

\* C31: through the decoder a register sign never returns to unset: the sign
\* of a register is unset exactly while no relay 7, 5 or 2 event has been
\* applied for it, and positive or negative in every state after one.
C31_SignNeverUnset ==
    \A relay \in {7, 5, 2} :
        /\ display_state[SignFieldOf(relay)] = "None" <=> SignEvents(relay) = {}
        /\ SignEvents(relay) # {} => display_state[SignFieldOf(relay)] \in {"+", "-"}

\* after traffic that had set the sign of r1 to minus, a relay-6 word (sign
\* bit 1, no sign of its own) has been applied: the sign is still set
C31_Witness ==
    /\ Decoded(Channel10, DisplayValue(6, 1, 0, 0))
    /\ SignEvents(7) = {5}
    /\ display_state.r1_sign = "-"
    /\ display_state.r1 = <<1, 2, 3, 0, 0>>

\* the thread executes self.socket = socket.socket(...)
CreatesSocket == pc = "create_socket" /\ pc' = "connect"

\* C32: the Connection Manager holds at most one open socket at any time: the
\* socket of a failed attempt is closed before the next attempt creates
\* another, so a socket is created only while the manager holds no open one;
\* and when disconnect() has returned no socket of the manager is open.
C32_OneSocket ==
    [][/\ CreatesSocket => socket # "open"
       /\ main_pc' = "stopped" => socket' # "open"]_vars

\* the indices of the selected element: 0..1 for prog, verb and noun, 0..4
\* for r1, r2 and r3
CursorValid ==
    /\ selected_element \in {"prog", "verb", "noun", "r1", "r2", "r3"}
    /\ selected_element \in {"prog", "verb", "noun"} => selected_digit \in 0..1
    /\ selected_element \in {"r1", "r2", "r3"} => selected_digit \in 0..4

\* the step is the item assignment of _set_digit
DigitWrite == main_pc = "set_digit" /\ pending.main # << >> /\ pending'.main = << >>

\* C33: simulator cursor invariant: after any sequence of keyboard commands
\* selected_digit is a valid index of the selected element, so a digit key
\* overwrites exactly one existing slot (the selected one, with a digit) and
\* changes the length of no field.
C33_CursorValid ==
    /\ [](simulation_mode => CursorValid)
    /\ [][(simulation_mode /\ DigitWrite) =>
            /\ selected_digit + 1 \in DOMAIN display_state[selected_element]
            /\ display_state'[selected_element][selected_digit + 1] \in 0..9
            /\ \A f \in DOMAIN display_state :
                   /\ f \in ListFields => Len(display_state'[f]) = Len(display_state[f])
                   /\ f \notin ListFields => display_state'[f] = display_state[f]
                   /\ f \in ListFields =>
                          \A i \in DOMAIN display_state[f] :
                              (f # selected_element \/ i # selected_digit + 1) =>
                                  display_state'[f][i] = display_state[f][i]]_vars

\* with the last digit of r3 selected a 7 was typed and then a 3: the cursor
\* went from 4 round to 0 and on to 1, r3 is still five digits long
C33_Witness ==
    /\ simulation_mode
    /\ main_pc = "run"
    /\ keys = 2
    /\ selected_element = "r3"
    /\ selected_digit = 1
    /\ display_state.r3 = <<3, 0, 0, 0, 7>>

====









